---------------------------- MODULE Spec2Model ----------------------------
(***************************************************************************)
(* Model of port/platform/common/automation/tasks/__init__.py: the module  *)
(* body that builds the root invoke namespace `ns` and its configuration   *)
(* `cfg`.  Every top-level statement of the file is one step; `pc` is the  *)
(* source line about to be executed.                                       *)
(*                                                                         *)
(* Strings that the program computes with (module names, task names,       *)
(* paths) are sequences of one-character strings, so that `+` is \o and    *)
(* invoke's name transformation is computed character by character.        *)
(* Dictionary keys that are only ever compared are plain strings.          *)
(***************************************************************************)
EXTENDS Naturals, Sequences, FiniteSets

VARIABLES
    failingImport,  \* environment: the module whose import raises, or NoModule
    utils,          \* environment: the attributes u_utils provides (name -> path)
    moduleTasks,    \* environment: the Task objects each task module defines
    pc,             \* source line about to be executed (20: past the last line)
    status,         \* "running" | "done" | "failed"
    ns,             \* module global ns: <<>> while unbound, else <<Collection>>
    cfg,            \* module global cfg: <<>> while unbound, else <<Config>>
    raisedBy,       \* the module whose import or attribute raised, or NoModule
    exported,       \* what the task runner got from the import: <<>> or <<Collection>>
    ctx,            \* the execution context of the last dispatched task: <<>> or <<Context>>
    dispatched,     \* how many tasks have been dispatched
    runs,           \* how many times the module body has been started
    firstNs,        \* ns at the end of the first completed run
    firstCfg        \* cfg at the end of the first completed run

vars == <<failingImport, utils, moduleTasks, pc, status, ns, cfg, raisedBy,
          exported, ctx, dispatched, runs, firstNs, firstCfg>>

env == <<failingImport, utils, moduleTasks>>

---------------------------------------------------------------------------
(* Bounds of the model.                                                    *)

MaxDispatch == 2
MaxRuns == 2

---------------------------------------------------------------------------
(* Names appearing in the source.                                          *)

invoke == <<"i","n","v","o","k","e">>
u_utils == <<"u","_","u","t","i","l","s">>
nrfconnect == <<"n","r","f","c","o","n","n","e","c","t">>
nrf5 == <<"n","r","f","5">>
stm32cube == <<"s","t","m","3","2","c","u","b","e">>
esp_idf == <<"e","s","p","_","i","d","f">>
arduino == <<"a","r","d","u","i","n","o">>
automation == <<"a","u","t","o","m","a","t","i","o","n">>
linux == <<"l","i","n","u","x">>

NoModule == <<>>

\* line 3: from . import nrfconnect, nrf5, stm32cube, esp_idf, arduino, automation, linux
TaskModules == <<nrfconnect, nrf5, stm32cube, esp_idf, arduino, automation, linux>>

Range(s) == {s[i] : i \in 1..Len(s)}

\* '/.vscode' of line 9
VscodeSuffix == <<"/",".","v","s","c","o","d","e">>

ConfigKeys == {"root_dir", "vscode_dir", "cfg_dir"}

---------------------------------------------------------------------------
(* The environment the module body runs in.                                *)

\* Resolved filesystem paths u_utils can provide.
Paths == { <<"/","u">>, <<"/","w","/","a">> }

UtilsAttrs == {"UBXLIB_DIR", "AUTOMATION_DIR"}

\* u_utils as imported: each attribute is either a resolved path or absent
\* (its access raises).
UtilsValues == UNION { [A -> Paths] : A \in SUBSET UtilsAttrs }

build == <<"b","u","i","l","d">>
run_test == <<"r","u","n","_","t","e","s","t">>

\* The sets of tasks a task module can define.
TaskSets == { {build}, {build, run_test} }

Importable == {invoke, u_utils} \cup Range(TaskModules)

---------------------------------------------------------------------------
(* invoke.Collection and invoke.Config, as far as lines 5-19 use them.     *)

\* a transform that leaves every name as it is
TransformIdentity(name) == name

\* Collection.transform with auto_dash_names at its default (True): every
\* underscore that is neither the first nor the last character, and is not
\* next to a dot, becomes a dash.
Transform(name) ==
    [i \in 1..Len(name) |->
        IF /\ i \notin {1, Len(name)}
           /\ name[i] = "_"
           /\ name[i-1] # "."
           /\ name[i+1] # "."
        THEN "-" ELSE name[i]]

\* Collection()
NewCollection == [configuration |-> <<>>, tasks |-> {}, collections |-> <<>>]

\* Config(): the keys this file sets; invoke's own defaults are left out.
NewConfig == <<>>

\* cfg = {key: value}: the mapping is replaced instead of updated
SetItemReplacing(d, key, value) == [k \in {key} |-> value]

\* cfg[key] = value
SetItem(d, key, value) ==
    [k \in DOMAIN d \cup {key} |-> IF k = key THEN value ELSE d[k]]

\* merge_dicts(base, updates): every key of updates is copied into base
MergeDicts(base, updates) ==
    [k \in DOMAIN base \cup DOMAIN updates |->
        IF k \in DOMAIN updates THEN updates[k] ELSE base[k]]

\* Collection.from_module(module): a collection named after the module,
\* holding the module's tasks under their transformed names.
FromModule(m, tasks) ==
    [name |-> Transform(m),
     tasks |-> {Transform(t) : t \in tasks},
     configuration |-> <<>>]

\* the collection names registered in a namespace, in insertion order
Names(c) == [i \in 1..Len(c.collections) |-> c.collections[i].name]

\* Collection.add_collection raises ValueError when the collection has no
\* name or a task of the namespace already has that name.
AddRaises(c, sub) == sub.name = <<>> \/ sub.name \in c.tasks

\* self.collections[name] = coll  (a dict: a known name is replaced in place)
AddCollection(c, sub) ==
    IF sub.name \in Range(Names(c))
    THEN [c EXCEPT !.collections =
            [i \in 1..Len(c.collections) |->
                IF c.collections[i].name = sub.name THEN sub ELSE c.collections[i]]]
    ELSE [c EXCEPT !.collections = Append(c.collections, sub)]

\* Collection.configuration(taskpath): the sub-collection's configuration
\* with the root's merged on top (the root wins).
Configuration(c, sub) == MergeDicts(sub.configuration, c.configuration)

---------------------------------------------------------------------------
(* The module body, statement by statement.                                *)

\* a module body with line 16 deleted
LinesWithout16 == <<1, 2, 3, 5, 7, 8, 9, 10, 12, 13, 14, 15, 17, 18, 19>>

\* a module body with line 12 deleted
LinesWithout12 == <<1, 2, 3, 5, 7, 8, 9, 10, 13, 14, 15, 16, 17, 18, 19>>

\* a module body with line 12 moved below line 13
LinesConfigureLate == <<1, 2, 3, 5, 7, 8, 9, 10, 13, 12, 14, 15, 16, 17, 18, 19>>

\* a module body with lines 14 and 15 exchanged
LinesSwapped == <<1, 2, 3, 5, 7, 8, 9, 10, 12, 13, 15, 14, 16, 17, 18, 19>>

\* the source lines that hold a statement, in execution order
Lines == <<1, 2, 3, 5, 7, 8, 9, 10, 12, 13, 14, 15, 16, 17, 18, 19>>

\* the line executed after line l; 20 once the last line has run
NextLine(l) ==
    LET i == CHOOSE j \in 1..Len(Lines) : Lines[j] = l
    IN IF i = Len(Lines) THEN 20 ELSE Lines[i + 1]

\* the statement at line l
StmtAt(l) ==
    CASE l = 1  -> [op |-> "import", arg |-> <<invoke>>]
      [] l = 2  -> [op |-> "import", arg |-> <<u_utils>>]
      [] l = 3  -> [op |-> "import", arg |-> TaskModules]
      [] l = 5  -> [op |-> "Collection", arg |-> <<>>]
      [] l = 7  -> [op |-> "Config", arg |-> <<>>]
      [] l = 8  -> [op |-> "setitem", arg |-> <<"root_dir">>]
      [] l = 9  -> [op |-> "setitem", arg |-> <<"vscode_dir">>]
      [] l = 10 -> [op |-> "setitem", arg |-> <<"cfg_dir">>]
      [] l = 12 -> [op |-> "configure", arg |-> <<>>]
      [] l = 13 -> [op |-> "add_collection", arg |-> <<nrfconnect>>]
      [] l = 14 -> [op |-> "add_collection", arg |-> <<nrf5>>]
      [] l = 15 -> [op |-> "add_collection", arg |-> <<stm32cube>>]
      [] l = 16 -> [op |-> "add_collection", arg |-> <<esp_idf>>]
      [] l = 17 -> [op |-> "add_collection", arg |-> <<arduino>>]
      [] l = 18 -> [op |-> "add_collection", arg |-> <<automation>>]
      [] l = 19 -> [op |-> "add_collection", arg |-> <<linux>>]
      [] OTHER  -> [op |-> "end", arg |-> <<>>]

\* line 9 reading an attribute u_utils does not have
AttrsAtMisspelt(l) ==
    CASE l = 8  -> {"UBXLIB_DIR"}
      [] l = 9  -> {"VSCODE_DIR"}
      [] l = 10 -> {"AUTOMATION_DIR"}
      [] OTHER  -> {}

\* the u_utils attributes the right-hand side of line l reads
AttrsAt(l) ==
    CASE l = 8  -> {"UBXLIB_DIR"}
      [] l = 9  -> {"UBXLIB_DIR"}
      [] l = 10 -> {"AUTOMATION_DIR"}
      [] OTHER  -> {}

\* line 9 appending '.vscode' without the separator
ValueAtNoSeparator(l, u) ==
    CASE l = 8  -> u["UBXLIB_DIR"]
      [] l = 9  -> u["UBXLIB_DIR"] \o Tail(VscodeSuffix)
      [] l = 10 -> u["AUTOMATION_DIR"]

\* the value of the right-hand side of line l, given u_utils
ValueAt(l, u) ==
    CASE l = 8  -> u["UBXLIB_DIR"]
      [] l = 9  -> u["UBXLIB_DIR"] \o VscodeSuffix
      [] l = 10 -> u["AUTOMATION_DIR"]

Running(op) == status = "running" /\ StmtAt(pc).op = op

\* the statement at pc completed: fall through to the next line
Advance == pc' = NextLine(pc) /\ status' = "running" /\ raisedBy' = raisedBy

\* an exception that is caught and dropped: execution goes on at the next line
RaiseSwallowed(who) ==
    /\ status' = "running"
    /\ raisedBy' = who
    /\ pc' = NextLine(pc)
    /\ UNCHANGED <<ns, cfg, exported>>

\* An exception at module level: nothing in lines 1-19 catches it, so the
\* import of the module fails and the importer receives no module.
Raise(who) ==
    /\ status' = "failed"
    /\ raisedBy' = who
    /\ exported' = <<>>
    /\ UNCHANGED <<pc, ns, cfg>>

\* lines 1-3: the import statements
Import ==
    /\ Running("import")
    /\ IF failingImport \in Range(StmtAt(pc).arg)
       THEN Raise(failingImport)
       ELSE Advance /\ UNCHANGED <<ns, cfg, exported>>
    /\ UNCHANGED <<env, ctx, dispatched, runs, firstNs, firstCfg>>

\* line 5: ns = Collection()
BindNs ==
    /\ Running("Collection")
    /\ ns' = <<NewCollection>>
    /\ Advance
    /\ UNCHANGED <<env, cfg, exported, ctx, dispatched, runs, firstNs, firstCfg>>

\* line 7: cfg = Config()
BindCfg ==
    /\ Running("Config")
    /\ cfg' = <<NewConfig>>
    /\ Advance
    /\ UNCHANGED <<env, ns, exported, ctx, dispatched, runs, firstNs, firstCfg>>

\* lines 8-10 with line 9 written as an augmented assignment to the shared
\* module attribute: u_utils.UBXLIB_DIR += '/.vscode'
AssignInPlace ==
    /\ Running("setitem")
    /\ IF AttrsAt(pc) \subseteq DOMAIN utils
       THEN /\ cfg' = <<SetItem(cfg[1], StmtAt(pc).arg[1], ValueAt(pc, utils))>>
            /\ utils' = IF pc = 9
                        THEN [utils EXCEPT !["UBXLIB_DIR"] = @ \o VscodeSuffix]
                        ELSE utils
            /\ Advance
            /\ UNCHANGED <<ns, exported>>
       ELSE Raise(u_utils) /\ utils' = utils
    /\ UNCHANGED <<failingImport, moduleTasks, ctx, dispatched, runs, firstNs, firstCfg>>

\* lines 8-10: cfg[key] = <expression over u_utils>
Assign ==
    /\ Running("setitem")
    /\ IF AttrsAt(pc) \subseteq DOMAIN utils
       THEN /\ cfg' = <<SetItem(cfg[1], StmtAt(pc).arg[1], ValueAt(pc, utils))>>
            /\ Advance
            /\ UNCHANGED <<ns, exported>>
       ELSE Raise(u_utils)
    /\ UNCHANGED <<env, ctx, dispatched, runs, firstNs, firstCfg>>

\* line 12: ns.configure(cfg)
Configure ==
    /\ Running("configure")
    /\ ns' = <<[ns[1] EXCEPT !.configuration = MergeDicts(@, cfg[1])]>>
    /\ Advance
    /\ UNCHANGED <<env, cfg, exported, ctx, dispatched, runs, firstNs, firstCfg>>

\* lines 13-19: ns.add_collection(<module>)
Add ==
    /\ Running("add_collection")
    /\ LET m == StmtAt(pc).arg[1]
           sub == FromModule(m, moduleTasks[m])
       IN IF AddRaises(ns[1], sub)
          THEN Raise(m)
          ELSE /\ ns' = <<AddCollection(ns[1], sub)>>
               /\ Advance
               /\ UNCHANGED <<cfg, exported>>
    /\ UNCHANGED <<env, ctx, dispatched, runs, firstNs, firstCfg>>

\* the end of the module body: the import succeeds and the importer (the
\* task runner's loader) takes the module global ns
Finish ==
    /\ Running("end")
    /\ status' = "done"
    /\ exported' = ns
    /\ firstNs' = IF runs = 1 THEN ns ELSE firstNs
    /\ firstCfg' = IF runs = 1 THEN cfg ELSE firstCfg
    /\ UNCHANGED <<env, pc, ns, cfg, raisedBy, ctx, dispatched, runs>>

\* one step of the module body
Construct == Import \/ BindNs \/ BindCfg \/ Assign \/ Configure \/ Add \/ Finish

\* The task runner invokes <collection>.<task> of the namespace it was given;
\* the task's context carries the configuration of the namespace.
Dispatch ==
    /\ exported # <<>>
    /\ dispatched < MaxDispatch
    /\ \E i \in 1..Len(exported[1].collections) :
         LET sub == exported[1].collections[i] IN
         \E t \in sub.tasks :
            ctx' = <<[collection |-> sub.name, task |-> t,
                      config |-> Configuration(exported[1], sub)]>>
    /\ dispatched' = dispatched + 1
    /\ UNCHANGED <<env, pc, status, ns, cfg, raisedBy, exported, runs, firstNs, firstCfg>>

\* The module body is executed again in the same process and environment
\* (importlib.reload): the globals keep their old objects until rebound.
Reload ==
    /\ status = "done"
    /\ runs < MaxRuns
    /\ runs' = runs + 1
    /\ pc' = 1
    /\ status' = "running"
    /\ UNCHANGED <<env, ns, cfg, raisedBy, exported, ctx, dispatched, firstNs, firstCfg>>

Init ==
    /\ failingImport \in Importable \cup {NoModule}
    /\ utils \in UtilsValues
    /\ moduleTasks \in [Range(TaskModules) -> TaskSets]
    /\ pc = 1
    /\ status = "running"
    /\ ns = <<>>
    /\ cfg = <<>>
    /\ raisedBy = NoModule
    /\ exported = <<>>
    /\ ctx = <<>>
    /\ dispatched = 0
    /\ runs = 1
    /\ firstNs = <<>>
    /\ firstCfg = <<>>

Next == Construct \/ Dispatch

Spec == Init /\ [][Next]_vars

\* The module body is straight-line synchronous code: it always takes its
\* next step.
FairSpec == Spec /\ WF_vars(Construct)

NextReload == Construct \/ Reload

SpecReload == Init /\ [][NextReload]_vars

---------------------------------------------------------------------------
(* Properties.                                                             *)

esp_dash_idf == <<"e","s","p","-","i","d","f">>

\* the names the seven collections are registered under, in the order of lines 13-19
RegisteredOrder ==
    <<nrfconnect, nrf5, stm32cube, esp_dash_idf, arduino, automation, linux>>

IsPrefix(s, t) == Len(s) <= Len(t) /\ \A i \in 1..Len(s) : s[i] = t[i]

\* every import succeeds and u_utils provides both paths
ValidInputs == failingImport = NoModule /\ DOMAIN utils = UtilsAttrs

\* a namespace holding the seven collections and the three configuration keys
Complete(c) ==
    /\ Range(Names(c)) = Range(RegisteredOrder)
    /\ Len(c.collections) = 7
    /\ ConfigKeys \subseteq DOMAIN c.configuration

\* C1 as stated: with valid inputs the finished namespace holds exactly seven
\* collections, named nrfconnect, nrf5, stm32cube, esp_idf, arduino, automation
\* and linux, without duplicates, and each of them is non-empty.
C1_AsStated ==
    (ValidInputs /\ status = "done") =>
        /\ Len(ns[1].collections) = 7
        /\ Range(Names(ns[1])) = Range(TaskModules)
        /\ \A i \in 1..Len(ns[1].collections) : ns[1].collections[i].tasks # {}

\* C1 amended: with valid inputs the finished namespace holds exactly seven
\* collections, without duplicates and each non-empty, registered under the
\* names nrfconnect, nrf5, stm32cube, esp-idf, arduino, automation and linux:
\* the module esp_idf is registered under its dashed name.
C1_SevenCollections ==
    (ValidInputs /\ status = "done") =>
        /\ Len(ns[1].collections) = 7
        /\ Range(Names(ns[1])) =
             {nrfconnect, nrf5, stm32cube, esp_dash_idf, arduino, automation, linux}
        /\ \A i, j \in 1..Len(ns[1].collections) :
             ns[1].collections[i].name = ns[1].collections[j].name => i = j
        /\ \A i \in 1..Len(ns[1].collections) : ns[1].collections[i].tasks # {}

C1_Witness ==
    /\ ValidInputs
    /\ status = "done"
    /\ Len(ns[1].collections) = 7
    /\ ns[1].collections[4].name = esp_dash_idf

\* C2: once construction has completed, cfg holds root_dir, vscode_dir and
\* cfg_dir, and the value of each is a non-empty string.
C2_KeysPresentNonEmpty ==
    status = "done" =>
        \A k \in ConfigKeys :
            /\ k \in DOMAIN cfg[1]
            /\ Len(cfg[1][k]) > 0
            /\ \A i \in 1..Len(cfg[1][k]) : cfg[1][k][i] \in STRING

C2_Witness ==
    /\ status = "done"
    /\ DOMAIN cfg[1] = ConfigKeys
    /\ cfg[1]["cfg_dir"] # cfg[1]["root_dir"]

\* C3: once construction has completed, and in every later state, vscode_dir
\* is root_dir followed by '/.vscode', in cfg and in the namespace's
\* configuration alike.
C3_VscodeDir ==
    status = "done" =>
        /\ cfg[1]["vscode_dir"] = cfg[1]["root_dir"] \o <<"/",".","v","s","c","o","d","e">>
        /\ exported[1].configuration["vscode_dir"] =
             exported[1].configuration["root_dir"] \o <<"/",".","v","s","c","o","d","e">>

C3_Witness ==
    /\ status = "done"
    /\ dispatched > 0
    /\ cfg[1]["root_dir"] = <<"/","w","/","a">>
    /\ cfg[1]["vscode_dir"] = <<"/","w","/","a","/",".","v","s","c","o","d","e">>

\* C4: when u_utils raises, at its import or at an attribute access of lines
\* 8-10, construction ends failed and the task runner holds no namespace, in
\* that state and ever after.
C4_NoNamespaceOnUtilsError ==
    raisedBy = u_utils => (status = "failed" /\ exported = <<>> /\ dispatched = 0)

\* u_utils raised at line 10, after ns was bound and cfg partly filled
C4_Witness ==
    /\ raisedBy = u_utils
    /\ status = "failed"
    /\ pc = 10
    /\ ns # <<>>
    /\ "vscode_dir" \in DOMAIN cfg[1]

C5_Inv ==
    /\ (dispatched > 0 \/ exported # <<>>) => (status = "done" /\ Complete(exported[1]))
    /\ (status \in {"done", "failed"} /\ (ns = <<>> \/ cfg = <<>>)) => status = "failed"
    /\ (status \in {"done", "failed"} /\ ns # <<>> /\ cfg # <<>>
          /\ ~(Complete(ns[1]) /\ ConfigKeys \subseteq DOMAIN cfg[1])) => status = "failed"
    /\ status = "failed" => (dispatched = 0 /\ exported = <<>>)

C5_FailedIsTerminal ==
    status = "failed" => (status' = "failed" /\ pc' = pc /\ dispatched' = dispatched
                          /\ ns' = ns /\ cfg' = cfg /\ exported' = exported)

C6_Idempotent ==
    (status = "done" /\ runs > 1) =>
        /\ ns = firstNs
        /\ cfg = firstCfg
        /\ exported = firstNs
        /\ Len(ns[1].collections) = 7
        /\ DOMAIN cfg[1] = ConfigKeys
        /\ DOMAIN ns[1].configuration = ConfigKeys

C6_Witness == status = "done" /\ runs = 2 /\ firstNs # <<>> /\ ns = firstNs

\* C7: with valid inputs no step of lines 5-19 fails, and construction
\* reaches the completed state.
C7_FailsOnlyOnImportOrResolution ==
    /\ [](ValidInputs => status # "failed")
    /\ [](status = "failed" => raisedBy \in Importable)
    /\ (ValidInputs ~> status = "done")

C7_Witness == ValidInputs /\ status = "done" /\ pc = 20 /\ raisedBy = NoModule

C8_CtxInv ==
    ctx # <<>> =>
        /\ ConfigKeys \subseteq DOMAIN ctx[1].config
        /\ ctx[1].config["root_dir"] = utils["UBXLIB_DIR"]
        /\ ctx[1].config["vscode_dir"] = utils["UBXLIB_DIR"] \o VscodeSuffix
        /\ ctx[1].config["cfg_dir"] = utils["AUTOMATION_DIR"]
        /\ ctx[1].config = cfg[1]

C8_Frame ==
    /\ (cfg # <<>> /\ pc > 10) => cfg' = cfg
    /\ (ns # <<>> /\ pc > 12) => ns'[1].configuration = ns[1].configuration

\* C8: the context of every dispatched task holds root_dir, vscode_dir and
\* cfg_dir with the values set at startup, and once the keys are set neither
\* an add_collection step nor a dispatch changes cfg or the namespace's
\* configuration.
C8_ConfigInEveryContext == [](C8_CtxInv) /\ [][C8_Frame]_vars

C8_Witness ==
    /\ ctx # <<>>
    /\ dispatched = 2
    /\ ctx[1].collection = esp_dash_idf
    /\ ctx[1].config["cfg_dir"] = <<"/","u">>

\* C9: whenever the namespace holds a collection, its configuration already
\* holds the three keys, and so does the context of every dispatched task.
C9_ConfiguredBeforeFirstAdd ==
    /\ (ns # <<>> /\ Len(ns[1].collections) >= 1) =>
            ConfigKeys \subseteq DOMAIN ns[1].configuration
    /\ (cfg # <<>> /\ pc >= 12) => ConfigKeys \subseteq DOMAIN cfg[1]
    /\ dispatched > 0 => ConfigKeys \subseteq DOMAIN ctx[1].config

C9_Witness ==
    /\ status = "running"
    /\ pc = 14
    /\ Len(ns[1].collections) = 1
    /\ DOMAIN ns[1].configuration = ConfigKeys

C10_Inv ==
    /\ ns # <<>> => IsPrefix(Names(ns[1]), RegisteredOrder)
    /\ status = "done" => (Names(ns[1]) = RegisteredOrder /\ DOMAIN cfg[1] = ConfigKeys)
    /\ runs = 1

C10_Forward ==
    /\ pc' >= pc
    /\ (status = "running" /\ status' = "running") => pc' > pc
    /\ (ns # <<>> /\ ns' # <<>>) =>
          Len(ns'[1].collections) \in {Len(ns[1].collections), Len(ns[1].collections) + 1}
    /\ status \in {"done", "failed"} => status' = status

\* C10: construction is one run of a fixed straight-line sequence: the line
\* only moves forward, the collections are added one at a time in the order
\* of lines 13-19, each once, and the run always ends, either completed with
\* seven collections and three keys or failed.
C10_RunOnceInOrder ==
    /\ [](C10_Inv)
    /\ [][C10_Forward]_vars
    /\ <>(status \in {"done", "failed"})

C10_Witness ==
    /\ status = "done"
    /\ Names(ns[1]) = RegisteredOrder
    /\ failingImport = NoModule

===========================================================================
